---------------------------- MODULE Spec2Model ----------------------------
(***************************************************************************)
(* A model of @oxog/types' Result container (src/src/result.ts) and its    *)
(* structural guards (src/src/guards.ts).                                  *)
(*                                                                         *)
(* JavaScript values are records [t, n, s, e]: t is the value's category,  *)
(* n its number (for a Result, its place in the heap), s its text (for an  *)
(* object, its name) and e its elements (an array built by the library).   *)
(* Text is a sequence of atoms (a string over an alphabet of atoms), so    *)
(* that concatenation is \o and "contains" is membership of an atom.       *)
(***************************************************************************)
EXTENDS Integers, Sequences, FiniteSets, TLC

VARIABLES heap, last, promise, fp, bus

vars == <<heap, last, promise, fp, bus>>

(***************************************************************************)
(* Bounds of the model.                                                    *)
(***************************************************************************)
MaxHeap == 2
MaxArr == 2
NumRange == 3
MaxChain == 2
MaxSubs == 2
MaxEmits == 2

(***************************************************************************)
(* JavaScript values.                                                      *)
(***************************************************************************)
Undefined == [t |-> "undefined", n |-> 0, s |-> <<>>, e |-> <<>>]
Null == [t |-> "null", n |-> 0, s |-> <<>>, e |-> <<>>]
Num(k) == [t |-> "number", n |-> k, s |-> <<>>, e |-> <<>>]
Str(txt) == [t |-> "string", n |-> 0, s |-> txt, e |-> <<>>]
Bool(b) == [t |-> "boolean", n |-> IF b THEN 1 ELSE 0, s |-> <<>>, e |-> <<>>]
BigIntV(k) == [t |-> "bigint", n |-> k, s |-> <<>>, e |-> <<>>]
SymbolV(desc) == [t |-> "symbol", n |-> 0, s |-> desc, e |-> <<>>]
\* a reference to the Result object at place i of the heap
ResultRef(i) == [t |-> "result", n |-> i, s |-> <<>>, e |-> <<>>]
\* an array the library builds (ResultUtils.all)
ArrayV(elems) == [t |-> "array", n |-> 0, s |-> <<>>, e |-> elems]
FunctionV == [t |-> "function", n |-> 0, s |-> <<>>, e |-> <<>>]
\* new Error(msg), created by the library itself
NewError(msg) == [t |-> "error", n |-> 0, s |-> msg, e |-> <<>>]
\* the TypeError the platform raises (String() of an object that has no
\* primitive form, JSON.stringify of a cycle or of a bigint)
TypeError == [t |-> "error", n |-> 0, s |-> <<"TypeError">>, e |-> <<>>]

(***************************************************************************)
(* The objects user code hands to the library.  cls is the class, props    *)
(* the enumerable own properties in order, toJSON the serialization hook,  *)
(* prim whether String(obj) works, msg the message accessor of an Error.   *)
(***************************************************************************)
Plain(props) ==
    [cls |-> "Object", props |-> props, toJSON |-> "none", prim |-> "ok",
     msg |-> "none", text |-> <<>>]

ObjRef(id) == [t |-> "object", n |-> 0, s |-> <<id>>, e |-> <<>>]

ObjIds ==
    {"code",       \* { code: 'TEST' }
     "circular",   \* circular = { name: 'test' }; circular.self = circular
     "nestedBig",  \* { id: 1, bigValue: BigInt(999) }
     "toJSON",     \* { toJSON() { throw new Error('Cannot serialize') } }
     "noPrim",     \* Object.create(null) with a throwing toJSON
     "native",     \* new Error('Something went wrong')
     "getter",     \* an Error whose message accessor throws
     "shared",     \* { a: c, b: c } with c = { code: 'TEST' }
     "serial",     \* the Error that the toJSON hooks throw
     "list",       \* [ c, undefined ]
     "ring",       \* ring = { next: { back: ring } }
     "ringBack"}   \* the inner object of ring: { back: ring }

\* the objects handed to the type guards that merely look like a Result
GuardObjIds ==
    {"empty",        \* {}
     "valueOnly",    \* { value: 42 }
     "errorOnly",    \* { error: 'error' }
     "okString",     \* { ok: 'yes' }
     "okNumber",     \* { ok: 1, value: 42 }
     "okOnly",       \* { ok: true }
     "duckOk",       \* { ok: true, value: 42 }
     "duckErr",      \* { ok: false, error: 'error' }
     "duckUndef",    \* { ok: true, value: undefined }
     "okWithError",  \* { ok: true, error: 'error' }
     "errWithValue"} \* { ok: false, value: 42 }

Obj(id) ==
    CASE id = "code" ->
           Plain(<<[k |-> "code", v |-> Str(<<"TEST">>)]>>)
      [] id = "circular" ->
           Plain(<<[k |-> "name", v |-> Str(<<"test">>)],
                   [k |-> "self", v |-> ObjRef("circular")]>>)
      [] id = "nestedBig" ->
           Plain(<<[k |-> "id", v |-> Num(1)],
                   [k |-> "bigValue", v |-> BigIntV(999)]>>)
      [] id = "toJSON" ->
           [Plain(<<>>) EXCEPT !.toJSON = "throws"]
      [] id = "noPrim" ->
           [Plain(<<>>) EXCEPT !.toJSON = "throws", !.prim = "throws"]
      [] id = "native" ->
           [Plain(<<>>) EXCEPT !.cls = "Error", !.msg = "value",
                               !.text = <<"Something went wrong">>]
      [] id = "getter" ->
           [Plain(<<>>) EXCEPT !.cls = "Error", !.msg = "throws"]
      [] id = "shared" ->
           Plain(<<[k |-> "a", v |-> ObjRef("code")],
                   [k |-> "b", v |-> ObjRef("code")]>>)
      [] id = "serial" ->
           [Plain(<<>>) EXCEPT !.cls = "Error", !.msg = "value",
                               !.text = <<"Cannot serialize">>]
      [] id = "list" ->
           [Plain(<<[k |-> "0", v |-> ObjRef("code")],
                    [k |-> "1", v |-> Undefined]>>) EXCEPT !.cls = "Array"]
      [] id = "ring" ->
           Plain(<<[k |-> "next", v |-> ObjRef("ringBack")]>>)
      [] id = "ringBack" ->
           Plain(<<[k |-> "back", v |-> ObjRef("ring")]>>)
      [] id = "empty" -> Plain(<<>>)
      [] id = "valueOnly" -> Plain(<<[k |-> "value", v |-> Num(42)]>>)
      [] id = "errorOnly" -> Plain(<<[k |-> "error", v |-> Str(<<"error">>)]>>)
      [] id = "okString" -> Plain(<<[k |-> "ok", v |-> Str(<<"yes">>)]>>)
      [] id = "okNumber" ->
           Plain(<<[k |-> "ok", v |-> Num(1)], [k |-> "value", v |-> Num(42)]>>)
      [] id = "okOnly" -> Plain(<<[k |-> "ok", v |-> Bool(TRUE)]>>)
      [] id = "duckOk" ->
           Plain(<<[k |-> "ok", v |-> Bool(TRUE)], [k |-> "value", v |-> Num(42)]>>)
      [] id = "duckErr" ->
           Plain(<<[k |-> "ok", v |-> Bool(FALSE)],
                   [k |-> "error", v |-> Str(<<"error">>)]>>)
      [] id = "duckUndef" ->
           Plain(<<[k |-> "ok", v |-> Bool(TRUE)], [k |-> "value", v |-> Undefined]>>)
      [] id = "okWithError" ->
           Plain(<<[k |-> "ok", v |-> Bool(TRUE)],
                   [k |-> "error", v |-> Str(<<"error">>)]>>)
      [] id = "errWithValue" ->
           Plain(<<[k |-> "ok", v |-> Bool(FALSE)], [k |-> "value", v |-> Num(42)]>>)

\* the object a reference denotes
Deref(v) == Obj(v.s[1])

\* value instanceof Error
InstanceOfError(v) ==
    \/ v.t = "error"
    \/ v.t = "object" /\ Deref(v).cls = "Error"

\* typeof value
TypeOf(v) ==
    CASE v.t \in {"object", "null", "error", "result", "array"} -> "object"
      [] OTHER -> v.t

(***************************************************************************)
(* Text helpers.                                                           *)
(***************************************************************************)
Digit == <<"0", "1", "2", "3", "4", "5", "6", "7", "8", "9">>

RECURSIVE DecText(_)
DecText(k) ==
    IF k < 10 THEN <<Digit[k + 1]>>
    ELSE DecText(k \div 10) \o <<Digit[(k % 10) + 1]>>

Quote(txt) == <<"\"">> \o txt \o <<"\"">>

Contains(txt, atom) == \E i \in 1..Len(txt) : txt[i] = atom

\* An outcome of evaluating something: it returns a value or throws one.
Return(v) == [kind |-> "return", val |-> v]
Throw(v) == [kind |-> "throw", val |-> v]


(***************************************************************************)
(* String(value) and `${value}`: the platform's string coercion.           *)
(***************************************************************************)
StringOf(v) ==
    CASE v.t = "undefined" -> Return(Str(<<"undefined">>))
      [] v.t = "null" -> Return(Str(<<"null">>))
      [] v.t = "string" -> Return(v)
      [] v.t \in {"number", "bigint"} -> Return(Str(DecText(v.n)))
      [] v.t = "symbol" -> Return(Str(<<"Symbol(">> \o v.s \o <<")">>))
      [] v.t = "function" -> Return(Str(<<"() => 'test'">>))
      [] v.t = "error" -> Return(Str(<<"Error: ">> \o v.s))
      [] v.t = "object" ->
           LET o == Deref(v) IN
           IF o.prim = "throws" THEN Throw(TypeError)
           ELSE IF o.cls = "Error" THEN
               IF o.msg = "throws" THEN Throw(ObjRef("serial"))
               ELSE Return(Str(<<"Error: ">> \o o.text))
           ELSE IF o.cls = "Array" THEN Return(Str(<<"[object Object]", ",">>))
           ELSE Return(Str(<<"[object Object]">>))

(***************************************************************************)
(* JSON.stringify(value, replacer) with safeStringify's replacer.          *)
(* A serialization step yields text, or undefined (the value has no JSON   *)
(* form), or throws; it carries the replacer's `seen` set along.           *)
(***************************************************************************)
JText(txt, seen) == [kind |-> "text", out |-> txt, seen |-> seen, val |-> Undefined]
JNone(seen) == [kind |-> "undefined", out |-> <<>>, seen |-> seen, val |-> Undefined]
JThrow(v, seen) == [kind |-> "throw", out |-> <<>>, seen |-> seen, val |-> v]

\* the replacer without its `seen.has(val)` test
Replacer_noSeen(val, seen) ==
    IF TypeOf(val) = "bigint" THEN [val |-> Str(DecText(val.n)), seen |-> seen]
    ELSE IF TypeOf(val) = "object" /\ val # Null THEN [val |-> val, seen |-> seen \cup {val}]
    ELSE [val |-> val, seen |-> seen]

\* the replacer of safeStringify: (_key, val) => ...
Replacer(val, seen) ==
    IF TypeOf(val) = "bigint" THEN [val |-> Str(DecText(val.n)), seen |-> seen]
    ELSE IF TypeOf(val) = "object" /\ val # Null THEN
        IF val \in seen THEN [val |-> Str(<<"[Circular]">>), seen |-> seen]
        ELSE [val |-> val, seen |-> seen \cup {val}]
    ELSE [val |-> val, seen |-> seen]

RECURSIVE SerializeJSONProperty(_, _, _), SerializeMembers(_, _, _, _, _, _)

\* the members of an object or array `holder`, from the i-th on, appended
\* to the text `acc` of the members before
SerializeMembers(holder, i, stack, seen, acc, any) ==
    LET o == Deref(holder)
        isArray == o.cls = "Array"
        open == IF isArray THEN <<"[">> ELSE <<"{">>
        close == IF isArray THEN <<"]">> ELSE <<"}">>
    IN
    IF i > Len(o.props) THEN JText(open \o acc \o close, seen)
    ELSE
        LET p == o.props[i]
            r == SerializeJSONProperty(p.v, stack \cup {holder}, seen)
            sep == IF any THEN <<",">> ELSE <<>>
        IN
        CASE r.kind = "throw" -> r
          [] r.kind = "undefined" ->
               IF isArray
               THEN SerializeMembers(holder, i + 1, stack, r.seen,
                                     acc \o sep \o <<"null">>, TRUE)
               ELSE SerializeMembers(holder, i + 1, stack, r.seen, acc, any)
          [] r.kind = "text" ->
               IF isArray
               THEN SerializeMembers(holder, i + 1, stack, r.seen,
                                     acc \o sep \o r.out, TRUE)
               ELSE SerializeMembers(holder, i + 1, stack, r.seen,
                                     acc \o sep \o Quote(<<p.k>>) \o <<":">> \o r.out,
                                     TRUE)

SerializeJSONProperty(val0, stack, seen0) ==
    IF val0.t = "object" /\ Deref(val0).toJSON = "throws"
    THEN JThrow(ObjRef("serial"), seen0)
    ELSE
        LET rep == Replacer(val0, seen0)
            val == rep.val
            seen == rep.seen
        IN
        CASE val.t = "null" -> JText(<<"null">>, seen)
          [] val.t = "string" -> JText(Quote(val.s), seen)
          [] val.t = "number" -> JText(DecText(val.n), seen)
          [] val.t = "bigint" -> JThrow(TypeError, seen)
          [] val.t \in {"undefined", "function", "symbol"} -> JNone(seen)
          [] val.t = "error" -> JText(<<"{", "}">>, seen)
          [] val.t = "object" ->
               IF val \in stack THEN JThrow(TypeError, seen)
               ELSE IF Deref(val).cls = "Error" THEN JText(<<"{", "}">>, seen)
               ELSE SerializeMembers(val, 1, stack, seen, <<>>, FALSE)

\* JSON.stringify(value, replacer): a string, or undefined, or an exception
JSONStringify(value) ==
    LET r == SerializeJSONProperty(value, {}, {}) IN
    CASE r.kind = "throw" -> Throw(r.val)
      [] r.kind = "undefined" -> Return(Undefined)
      [] r.kind = "text" -> Return(Str(r.out))

(***************************************************************************)
(* safeStringify(value), result.ts                                          *)
(***************************************************************************)
\* value.message of an Error
ErrorMessage(v) ==
    IF v.t = "error" THEN Return(Str(v.s))
    ELSE IF Deref(v).msg = "throws" THEN Throw(ObjRef("serial"))
    ELSE Return(Str(Deref(v).text))

safeStringify(value) ==
    IF InstanceOfError(value) THEN ErrorMessage(value)
    ELSE IF TypeOf(value) = "bigint" THEN StringOf(value)
    ELSE IF TypeOf(value) = "symbol" THEN StringOf(value)
    ELSE IF TypeOf(value) = "function" THEN Return(Str(<<"[Function]">>))
    ELSE
        LET r == JSONStringify(value) IN
        IF r.kind = "throw" THEN StringOf(value) ELSE r

(***************************************************************************)
(* Result objects.  A Result is an object of the heap: proto is its class, *)
(* own its own properties.  Both classes initialise all three properties   *)
(* (OkImpl: `readonly error = undefined`, ErrImpl: `readonly value =       *)
(* undefined`).                                                            *)
(***************************************************************************)
OkImpl(value) ==
    [proto |-> "OkImpl", own |-> [ok |-> TRUE, error |-> Undefined, value |-> value]]

\* ErrImpl with the tag of OkImpl (`readonly ok = true`)
ErrImpl_tagTrue(error) ==
    [proto |-> "ErrImpl", own |-> [ok |-> TRUE, value |-> Undefined, error |-> error]]

ErrImpl(error) ==
    [proto |-> "ErrImpl", own |-> [ok |-> FALSE, value |-> Undefined, error |-> error]]

\* What a call does: the heap after it, what it returned or threw, and the
\* callbacks it invoked, in order.
Effect(h, out, calls) == [heap |-> h, out |-> out, calls |-> calls]

\* export function Ok(value) { return new OkImpl(value) }
Ok(h, value) == Effect(Append(h, OkImpl(value)), Return(ResultRef(Len(h) + 1)), <<>>)

\* export function Err(error) { return new ErrImpl(error) }
Err(h, error) == Effect(Append(h, ErrImpl(error)), Return(ResultRef(Len(h) + 1)), <<>>)

(***************************************************************************)
(* The callbacks user code passes in.                                      *)
(***************************************************************************)
\* value -> value
MapFns == {"succ", "toUndefined", "boom"}
\* value -> Result
FlatFns == {"okSucc", "tooBig", "first", "boom"}

Succ(x) == IF x.t = "number" THEN Num((x.n + 1) % NumRange) ELSE Num(0)

\* fn(x): the heap after the call and what fn returned or threw
Call(fn, x, h) ==
    CASE fn = "succ" -> Effect(h, Return(Succ(x)), <<>>)
      [] fn = "toUndefined" -> Effect(h, Return(Undefined), <<>>)
      [] fn = "boom" -> Effect(h, Throw(ObjRef("native")), <<>>)
      [] fn = "okSucc" -> Ok(h, Succ(x))
      [] fn = "tooBig" ->
           IF x.t = "number" /\ x.n > 0 THEN Err(h, Str(<<"too big">>)) ELSE Ok(h, x)
      [] fn = "first" -> Effect(h, Return(ResultRef(1)), <<>>)

Invoked(role, fn, x) == [role |-> role, fn |-> fn, arg |-> x]

(***************************************************************************)
(* class OkImpl                                                            *)
(***************************************************************************)
\* map that catches what fn throws and returns it in an Err
OkImpl_map_catches(h, this, fn) ==
    LET c == Call(fn, h[this].own.value, h)
        log == <<Invoked("fn", fn, h[this].own.value)>>
    IN
    IF c.out.kind = "throw" THEN Effect(Err(c.heap, c.out.val).heap, Err(c.heap, c.out.val).out, log)
    ELSE Effect(Ok(c.heap, c.out.val).heap, Ok(c.heap, c.out.val).out, log)

\* map that stores fn's result in the receiver and returns it
OkImpl_map_inPlace(h, this, fn) ==
    LET c == Call(fn, h[this].own.value, h)
        log == <<Invoked("fn", fn, h[this].own.value)>>
    IN
    IF c.out.kind = "throw" THEN Effect(c.heap, c.out, log)
    ELSE Effect([c.heap EXCEPT ![this].own.value = c.out.val], Return(ResultRef(this)), log)

\* map that wraps fn's result in Err
OkImpl_map_asErr(h, this, fn) ==
    LET c == Call(fn, h[this].own.value, h)
        log == <<Invoked("fn", fn, h[this].own.value)>>
    IN
    IF c.out.kind = "throw" THEN Effect(c.heap, c.out, log)
    ELSE Effect(Err(c.heap, c.out.val).heap, Err(c.heap, c.out.val).out, log)

\* map(fn) { return Ok(fn(this.value)) }
OkImpl_map(h, this, fn) ==
    LET c == Call(fn, h[this].own.value, h)
        log == <<Invoked("fn", fn, h[this].own.value)>>
    IN
    IF c.out.kind = "throw" THEN Effect(c.heap, c.out, log)
    ELSE Effect(Ok(c.heap, c.out.val).heap, Ok(c.heap, c.out.val).out, log)

\* flatMap that wraps a copy of what fn returned
OkImpl_flatMap_rewrap(h, this, fn) ==
    LET c == Call(fn, h[this].own.value, h)
        log == <<Invoked("fn", fn, h[this].own.value)>>
    IN
    IF c.out.kind = "throw" THEN Effect(c.heap, c.out, log)
    ELSE Effect(Append(c.heap, c.heap[c.out.val.n]),
                Return(ResultRef(Len(c.heap) + 1)), log)

\* flatMap(fn) { return fn(this.value) }
OkImpl_flatMap(h, this, fn) ==
    LET c == Call(fn, h[this].own.value, h) IN
    Effect(c.heap, c.out, <<Invoked("fn", fn, h[this].own.value)>>)

\* mapErr(_fn) { return this }
OkImpl_mapErr(h, this, fn) == Effect(h, Return(ResultRef(this)), <<>>)

\* match(handlers) { return handlers.ok(this.value) }
OkImpl_match(h, this, okFn, errFn) ==
    LET c == Call(okFn, h[this].own.value, h) IN
    Effect(c.heap, c.out, <<Invoked("ok", okFn, h[this].own.value)>>)

\* unwrap() { return this.value }
OkImpl_unwrap(h, this) == Effect(h, Return(h[this].own.value), <<>>)

\* unwrapOr(_defaultValue) { return this.value }
OkImpl_unwrapOr(h, this, defaultValue) == Effect(h, Return(h[this].own.value), <<>>)

\* unwrapOrElse that evaluates the fallback eagerly
OkImpl_unwrapOrElse_eager(h, this, fn) ==
    LET c == Call(fn, h[this].own.value, h) IN
    Effect(h, Return(h[this].own.value), <<Invoked("fn", fn, h[this].own.value)>>)

\* unwrapOrElse(_fn) { return this.value }
OkImpl_unwrapOrElse(h, this, fn) == Effect(h, Return(h[this].own.value), <<>>)

(***************************************************************************)
(* class ErrImpl                                                           *)
(***************************************************************************)
\* map that returns a new Err of the same error
ErrImpl_map_copy(h, this, fn) == Err(h, h[this].own.error)

\* map(_fn) { return this }
ErrImpl_map(h, this, fn) == Effect(h, Return(ResultRef(this)), <<>>)

\* flatMap that invokes fn on an Err
ErrImpl_flatMap_calls(h, this, fn) ==
    LET c == Call(fn, h[this].own.error, h) IN
    Effect(c.heap, c.out, <<Invoked("fn", fn, h[this].own.error)>>)

\* flatMap(_fn) { return this }
ErrImpl_flatMap(h, this, fn) == Effect(h, Return(ResultRef(this)), <<>>)

\* mapErr that wraps fn's result in Ok
ErrImpl_mapErr_asOk(h, this, fn) ==
    LET c == Call(fn, h[this].own.error, h)
        log == <<Invoked("fn", fn, h[this].own.error)>>
    IN
    IF c.out.kind = "throw" THEN Effect(c.heap, c.out, log)
    ELSE Effect(Ok(c.heap, c.out.val).heap, Ok(c.heap, c.out.val).out, log)

\* mapErr(fn) { return Err(fn(this.error)) }
ErrImpl_mapErr(h, this, fn) ==
    LET c == Call(fn, h[this].own.error, h)
        log == <<Invoked("fn", fn, h[this].own.error)>>
    IN
    IF c.out.kind = "throw" THEN Effect(c.heap, c.out, log)
    ELSE Effect(Err(c.heap, c.out.val).heap, Err(c.heap, c.out.val).out, log)

\* match that dispatches an Err to handlers.ok
ErrImpl_match_okHandler(h, this, okFn, errFn) ==
    LET c == Call(okFn, h[this].own.error, h) IN
    Effect(c.heap, c.out, <<Invoked("ok", okFn, h[this].own.error)>>)

\* match(handlers) { return handlers.err(this.error) }
ErrImpl_match(h, this, okFn, errFn) ==
    LET c == Call(errFn, h[this].own.error, h) IN
    Effect(c.heap, c.out, <<Invoked("err", errFn, h[this].own.error)>>)

UnwrapPrefix == <<"[OxogTypes] Cannot unwrap Err: ">>

\* unwrap() { throw new Error(`[OxogTypes] Cannot unwrap Err: ${safeStringify(this.error)}`) }
ErrImpl_unwrap(h, this) ==
    LET r == safeStringify(h[this].own.error) IN
    IF r.kind = "throw" THEN Effect(h, r, <<>>)
    ELSE LET txt == StringOf(r.val) IN
         IF txt.kind = "throw" THEN Effect(h, txt, <<>>)
         ELSE Effect(h, Throw(NewError(UnwrapPrefix \o txt.val.s)), <<>>)

\* unwrapOr(defaultValue) { return defaultValue }
ErrImpl_unwrapOr(h, this, defaultValue) == Effect(h, Return(defaultValue), <<>>)

\* unwrapOrElse(fn) { return fn(this.error) }
ErrImpl_unwrapOrElse(h, this, fn) ==
    LET c == Call(fn, h[this].own.error, h) IN
    Effect(c.heap, c.out, <<Invoked("fn", fn, h[this].own.error)>>)

(***************************************************************************)
(* A chain r.m1(f1).m2(f2)...: each method is called on what the one       *)
(* before returned.  The log holds the callbacks invoked and, after each   *)
(* step, the Result it returned.                                           *)
(***************************************************************************)
ChainStep(h, this, step) ==
    IF h[this].proto = "OkImpl" THEN
        CASE step.m = "map" -> OkImpl_map(h, this, step.f)
          [] step.m = "flatMap" -> OkImpl_flatMap(h, this, step.f)
          [] step.m = "mapErr" -> OkImpl_mapErr(h, this, step.f)
    ELSE
        CASE step.m = "map" -> ErrImpl_map(h, this, step.f)
          [] step.m = "flatMap" -> ErrImpl_flatMap(h, this, step.f)
          [] step.m = "mapErr" -> ErrImpl_mapErr(h, this, step.f)

RECURSIVE Chain(_, _, _, _, _)
Chain(h, this, steps, i, log) ==
    IF i > Len(steps) THEN Effect(h, Return(ResultRef(this)), log)
    ELSE
        LET eff == ChainStep(h, this, steps[i]) IN
        IF eff.out.kind = "throw" THEN Effect(eff.heap, eff.out, log \o eff.calls)
        ELSE Chain(eff.heap, eff.out.val.n, steps, i + 1,
                   log \o eff.calls \o <<Invoked("result", steps[i].m, eff.out.val)>>)

(***************************************************************************)
(* ResultUtils                                                             *)
(***************************************************************************)
\* e instanceof Error ? e : new Error(String(e))
NormalizeError(e) ==
    IF InstanceOfError(e) THEN Return(e)
    ELSE LET txt == StringOf(e) IN
         IF txt.kind = "throw" THEN txt ELSE Return(NewError(txt.val.s))

\* tryCatch(fn): `thunk` is what calling fn() does (returns or throws)
ResultUtils_tryCatch(h, thunk) ==
    LET log == <<Invoked("fn", "thunk", Undefined)>> IN
    IF thunk.kind = "return" THEN Effect(Ok(h, thunk.val).heap, Ok(h, thunk.val).out, log)
    ELSE LET e == NormalizeError(thunk.val) IN
         IF e.kind = "throw" THEN Effect(h, e, log)
         ELSE Effect(Err(h, e.val).heap, Err(h, e.val).out, log)

\* fromPromise(promise), from the await on: `settled` is how the awaited
\* promise settled
ResultUtils_fromPromise(h, settled) ==
    IF settled.state = "fulfilled" THEN Ok(h, settled.val)
    ELSE LET e == NormalizeError(settled.val) IN
         IF e.kind = "throw" THEN Effect(h, e, <<>>)
         ELSE Err(h, e.val)

\* the loop with unshift in place of push
RECURSIVE AllLoop_unshift(_, _, _, _, _)
AllLoop_unshift(h, results, i, values, reads) ==
    IF i > Len(results) THEN Effect(Ok(h, ArrayV(values)).heap, Ok(h, ArrayV(values)).out, reads)
    ELSE
        LET result == h[results[i]]
            seenNow == Append(reads, Invoked("read", "", ResultRef(results[i])))
        IN
        IF ~result.own.ok THEN Effect(h, Return(ResultRef(results[i])), seenNow)
        ELSE AllLoop_unshift(h, results, i + 1, <<result.own.value>> \o values, seenNow)

\* all(results): the loop from the i-th element on; `values` are the values
\* pushed so far, `reads` the elements inspected so far
RECURSIVE AllLoop(_, _, _, _, _)
AllLoop(h, results, i, values, reads) ==
    IF i > Len(results) THEN Effect(Ok(h, ArrayV(values)).heap, Ok(h, ArrayV(values)).out, reads)
    ELSE
        LET result == h[results[i]]
            seenNow == Append(reads, Invoked("read", "", ResultRef(results[i])))
        IN
        IF ~result.own.ok THEN Effect(h, Return(ResultRef(results[i])), seenNow)
        ELSE AllLoop(h, results, i + 1, Append(values, result.own.value), seenNow)

\* all without the early return: every element is inspected and the last
\* Err wins
ResultUtils_all_lastErr(h, results) ==
    LET reads == [j \in 1..Len(results) |-> Invoked("read", "", ResultRef(results[j]))]
        failed == {j \in 1..Len(results) : ~h[results[j]].own.ok}
    IN
    IF failed = {} THEN AllLoop(h, results, 1, <<>>, <<>>)
    ELSE Effect(h, Return(ResultRef(results[CHOOSE j \in failed : \A k \in failed : k <= j])),
                reads)

ResultUtils_all(h, results) == AllLoop(h, results, 1, <<>>, <<>>)

(***************************************************************************)
(* The error classes.  A context is a record of user code: its entries in  *)
(* order, or no context at all (the optional parameter left out).          *)
(***************************************************************************)
NoContext == [given |-> FALSE, props |-> <<>>]
Context(props) == [given |-> TRUE, props |-> props]

HasKey(props, key) == \E i \in DOMAIN props : props[i].k = key
Lookup(props, key) == props[CHOOSE i \in DOMAIN props : props[i].k = key].v

\* { ...target, ...source }: the entries of source laid over those of
\* target, from the i-th entry of source on
RECURSIVE SpreadOver(_, _, _)
SpreadOver(target, source, i) ==
    IF i > Len(source) THEN target
    ELSE
        LET p == source[i]
            merged == IF HasKey(target, p.k)
                      THEN [j \in DOMAIN target |->
                               IF target[j].k = p.k THEN p ELSE target[j]]
                      ELSE Append(target, p)
        IN
        SpreadOver(merged, source, i + 1)

\* export const OXOG_VERSION = '1.0.0'
OXOG_VERSION == "1.0.0"

ErrorCodes ==
    [UNKNOWN |-> "UNKNOWN", VALIDATION_ERROR |-> "VALIDATION_ERROR",
     PLUGIN_ERROR |-> "PLUGIN_ERROR", NOT_FOUND |-> "NOT_FOUND",
     TIMEOUT |-> "TIMEOUT", DEPENDENCY_ERROR |-> "DEPENDENCY_ERROR"]

\* new OxogError(message, code, context)
OxogError(message, code, context) ==
    [proto |-> "OxogError",
     own |-> [name |-> "OxogError", message |-> message, code |-> code,
              context |-> context, pluginName |-> ""]]

\* new PluginError(message, pluginName, context):
\* super(message, ErrorCodes.PLUGIN_ERROR, { pluginName, ...context })
PluginError(message, pluginName, context) ==
    LET base == OxogError(message, ErrorCodes.PLUGIN_ERROR,
                          Context(SpreadOver(<<[k |-> "pluginName", v |-> pluginName]>>,
                                             context.props, 1)))
    IN
    [proto |-> "PluginError",
     own |-> [base.own EXCEPT !.name = "PluginError", !.pluginName = pluginName]]

(***************************************************************************)
(* The example TypedEventBus (examples/14-typed-emitter), for one event.   *)
(* subs is the event's handler set in insertion order; a subscription is   *)
(* the function in the set: the handler itself (on) or the wrapper that    *)
(* once builds around it.  id tells the functions apart, made counts the   *)
(* subscriptions made, invoked[id] the invocations of the handler of       *)
(* subscription id, once the ids that once made, emits the emit calls of   *)
(* user code.                                                              *)
(***************************************************************************)
HandlerFns ==
    {"log",      \* a handler that returns
     "throws",   \* a handler that throws
     "reemit"}   \* a handler that, the first time it runs, emits the event again

NewBus ==
    [subs |-> <<>>, made |-> 0, invoked |-> [id \in 1..MaxSubs |-> 0], once |-> {},
     emits |-> 0]

\* this.handlers.get(event)!.add(handler)
TypedEventBus_on(b, kind, fn) ==
    [b EXCEPT !.subs = Append(@, [id |-> b.made + 1, kind |-> kind, fn |-> fn]),
              !.made = @ + 1,
              !.once = IF kind = "once" THEN @ \cup {b.made + 1} ELSE @]

\* this.handlers.get(event)?.delete(handler)
Delete(b, id) ==
    [b EXCEPT !.subs = SelectSeq(@, LAMBDA sub : sub.id # id)]

RECURSIVE TypedEventBus_emit(_), ForEach(_, _), HandlerBody(_, _), OnceWrapper(_, _)

\* handler(payload): the bus after it, and whether it threw
HandlerBody(b, sub) ==
    LET b1 == [b EXCEPT !.invoked[sub.id] = @ + 1] IN
    CASE sub.fn = "log" -> [bus |-> b1, threw |-> FALSE]
      [] sub.fn = "throws" -> [bus |-> b1, threw |-> TRUE]
      [] sub.fn = "reemit" ->
           IF b1.invoked[sub.id] = 1
           THEN [bus |-> TypedEventBus_emit(b1), threw |-> FALSE]
           ELSE [bus |-> b1, threw |-> FALSE]

\* the function once subscribes: (payload) => { handler(payload); unsubscribe() }
OnceWrapper(b, sub) ==
    LET r == HandlerBody(b, sub) IN
    IF r.threw THEN r ELSE [bus |-> Delete(r.bus, sub.id), threw |-> FALSE]

\* eventHandlers.forEach(handler => { try { handler(payload) } catch ... }):
\* the functions of the set in insertion order, those deleted before their
\* turn left out; `visited` are the ones called so far
ForEach(b, visited) ==
    LET pending == {i \in DOMAIN b.subs : b.subs[i].id \notin visited} IN
    IF pending = {} THEN b
    ELSE
        LET i == CHOOSE j \in pending : \A k \in pending : j <= k
            sub == b.subs[i]
            r == IF sub.kind = "once" THEN OnceWrapper(b, sub) ELSE HandlerBody(b, sub)
        IN
        ForEach(r.bus, visited \cup {sub.id})

\* emit(event, payload)
TypedEventBus_emit(b) == ForEach(b, {})

(***************************************************************************)
(* Type guards, guards.ts.  A guard looks at any value: a primitive, a     *)
(* Result of the heap h, or an object of user code.                        *)
(***************************************************************************)
\* name in value, for a value that is an object
In(h, name, value) ==
    CASE value.t = "result" -> name \in DOMAIN h[value.n].own
      [] value.t = "object" ->
           \E i \in DOMAIN Deref(value).props : Deref(value).props[i].k = name
      [] OTHER -> FALSE

\* value[name], for a value that is an object
Get(h, value, name) ==
    CASE value.t = "result" /\ name = "ok" -> Bool(h[value.n].own.ok)
      [] value.t = "result" /\ name = "value" -> h[value.n].own.value
      [] value.t = "result" /\ name = "error" -> h[value.n].own.error
      [] value.t = "object" /\ In(h, name, value) ->
           LET props == Deref(value).props IN
           props[CHOOSE i \in DOMAIN props : props[i].k = name].v
      [] OTHER -> Undefined

\* isResult with `&&` between the two `in` tests
isResult_bothFields(h, value) ==
    /\ value # Null
    /\ TypeOf(value) = "object"
    /\ TypeOf(Get(h, value, "ok")) = "boolean"
    /\ In(h, "value", value) /\ In(h, "error", value)

isResult(h, value) ==
    /\ value # Null
    /\ TypeOf(value) = "object"
    /\ TypeOf(Get(h, value, "ok")) = "boolean"
    /\ In(h, "value", value) \/ In(h, "error", value)

\* isOk without its test of the tag
isOk_anyResult(h, value) == isResult(h, value)

isOk(h, value) == isResult(h, value) /\ Get(h, value, "ok") = Bool(TRUE)

\* isErr without its test of the tag
isErr_anyResult(h, value) == isResult(h, value)

isErr(h, value) == isResult(h, value) /\ Get(h, value, "ok") = Bool(FALSE)

(***************************************************************************)
(* The program: user code that builds Results, calls their methods and the *)
(* utilities, one call at a time.  `last` records the call just made: what *)
(* was called on what, the callbacks it invoked and what it returned or    *)
(* threw; for a call of fromPromise, `promise` is the wrapped promise and  *)
(* `fp` the returned one.  The caller looks at the outcome and moves on    *)
(* (Forget) before its next call; the Results stay in the heap.            *)
(***************************************************************************)
OkPayloads == {Num(k) : k \in 0..(NumRange - 1)} \cup {Undefined}

\* the errors of the test suite's combinator tests
ErrPayloads == {Str(<<"error">>), Undefined, ObjRef("code"), ObjRef("native")}

\* every kind of error payload safeStringify distinguishes
AnyPayloads ==
    {Str(<<"error">>), Undefined, BigIntV(123456789), SymbolV(<<"test">>), FunctionV}
    \cup {ObjRef(id) : id \in ObjIds \ {"serial"}}

\* the payloads of the Results handed to the guards
GuardPayloads == {Num(0), Null, Undefined, Str(<<"error">>), ObjRef("code")}

\* what the guards are asked about besides the Results of the heap
GuardSubjects ==
    {Null, Undefined, Num(42), Str(<<"string">>), Bool(TRUE), FunctionV,
     ArrayV(<<>>), NewError(<<"error">>), ObjRef("code"), ObjRef("native"), ObjRef("list")}
    \cup {ObjRef(id) : id \in GuardObjIds}

\* what the error classes are constructed with
Messages == {"Failed to initialize", "Error"}
PluginNames == {"cache-plugin", "test-plugin"}
Contexts ==
    {NoContext,
     Context(<<>>),
     Context(<<[k |-> "reason", v |-> "Redis connection failed"]>>),
     Context(<<[k |-> "extra", v |-> "data"], [k |-> "reason", v |-> "timeout"]>>),
     Context(<<[k |-> "pluginName", v |-> "other-plugin"]>>),
     Context(<<[k |-> "extra", v |-> "data"], [k |-> "pluginName", v |-> "cache-plugin"]>>)}

\* what calling a function may do: return a value of V or throw one of E
Thunks(V, E) == {Return(v) : v \in V} \cup {Throw(e) : e \in E}

\* how a promise may settle
Settlements(V, E) ==
    {[state |-> "fulfilled", val |-> v] : v \in V}
    \cup {[state |-> "rejected", val |-> e] : e \in E}

\* `recv` is the receiver as it was when the call began, `len` the size of
\* the heap then
NoObject ==
    [proto |-> "none", own |-> [ok |-> FALSE, value |-> Undefined, error |-> Undefined]]

NoCall ==
    [op |-> "none", this |-> 0, recv |-> NoObject, f |-> "", g |-> "", d |-> Undefined,
     arr |-> <<>>, thunk |-> Return(Undefined), out |-> Return(Undefined),
     calls |-> <<>>, len |-> 0, ctx |-> NoContext, steps |-> <<>>]

NoPromise == [state |-> "none", val |-> Undefined]
Idle == [state |-> "idle", out |-> Undefined]

Init ==
    /\ heap = <<>>
    /\ last = NoCall
    /\ promise = NoPromise
    /\ fp = Idle
    /\ bus = NewBus

\* a synchronous call with effect eff, the heap staying within `limit`
PerformWithin(call, eff, limit) ==
    /\ last.op = "none"
    /\ Len(eff.heap) <= limit
    /\ heap' = eff.heap
    /\ last' = [call EXCEPT !.out = eff.out, !.calls = eff.calls, !.len = Len(heap),
                            !.recv = IF call.this = 0 THEN NoObject ELSE heap[call.this]]
    /\ UNCHANGED <<promise, fp, bus>>

Perform(call, eff) == PerformWithin(call, eff, MaxHeap)

\* the caller is done with the outcome of its last call
Forget ==
    /\ last.op # "none"
    /\ fp.state # "awaiting"
    /\ last' = NoCall
    /\ promise' = NoPromise
    /\ fp' = Idle
    /\ UNCHANGED <<heap, bus>>

IsOkImpl(i) == heap[i].proto = "OkImpl"

CallOkOf(V) ==
    /\ last.op = "none"
    /\ \E x \in V :
        Perform([NoCall EXCEPT !.op = "Ok", !.d = x], Ok(heap, x))

CallOk == CallOkOf(OkPayloads)

CallErr(E) ==
    /\ last.op = "none"
    /\ \E e \in E :
        Perform([NoCall EXCEPT !.op = "Err", !.d = e], Err(heap, e))

CallMap ==
    /\ last.op = "none"
    /\ \E i \in DOMAIN heap, fn \in MapFns :
        Perform([NoCall EXCEPT !.op = "map", !.this = i, !.f = fn],
                IF IsOkImpl(i) THEN OkImpl_map(heap, i, fn) ELSE ErrImpl_map(heap, i, fn))

CallFlatMap ==
    /\ last.op = "none"
    /\ \E i \in DOMAIN heap, fn \in FlatFns :
        Perform([NoCall EXCEPT !.op = "flatMap", !.this = i, !.f = fn],
                IF IsOkImpl(i) THEN OkImpl_flatMap(heap, i, fn)
                ELSE ErrImpl_flatMap(heap, i, fn))

CallMapErr ==
    /\ last.op = "none"
    /\ \E i \in DOMAIN heap, fn \in MapFns :
        Perform([NoCall EXCEPT !.op = "mapErr", !.this = i, !.f = fn],
                IF IsOkImpl(i) THEN OkImpl_mapErr(heap, i, fn)
                ELSE ErrImpl_mapErr(heap, i, fn))

CallMatch ==
    /\ last.op = "none"
    /\ \E i \in DOMAIN heap, okFn \in MapFns, errFn \in MapFns :
        Perform([NoCall EXCEPT !.op = "match", !.this = i, !.f = okFn, !.g = errFn],
                IF IsOkImpl(i) THEN OkImpl_match(heap, i, okFn, errFn)
                ELSE ErrImpl_match(heap, i, okFn, errFn))

CallUnwrap ==
    /\ last.op = "none"
    /\ \E i \in DOMAIN heap :
        Perform([NoCall EXCEPT !.op = "unwrap", !.this = i],
                IF IsOkImpl(i) THEN OkImpl_unwrap(heap, i) ELSE ErrImpl_unwrap(heap, i))

CallUnwrapOr ==
    /\ last.op = "none"
    /\ \E i \in DOMAIN heap, d \in OkPayloads :
        Perform([NoCall EXCEPT !.op = "unwrapOr", !.this = i, !.d = d],
                IF IsOkImpl(i) THEN OkImpl_unwrapOr(heap, i, d)
                ELSE ErrImpl_unwrapOr(heap, i, d))

CallUnwrapOrElse ==
    /\ last.op = "none"
    /\ \E i \in DOMAIN heap, fn \in MapFns :
        Perform([NoCall EXCEPT !.op = "unwrapOrElse", !.this = i, !.f = fn],
                IF IsOkImpl(i) THEN OkImpl_unwrapOrElse(heap, i, fn)
                ELSE ErrImpl_unwrapOrElse(heap, i, fn))

CallTryCatch(E) ==
    /\ last.op = "none"
    /\ \E thunk \in Thunks(OkPayloads, E) :
        Perform([NoCall EXCEPT !.op = "tryCatch", !.thunk = thunk],
                ResultUtils_tryCatch(heap, thunk))

Arrays == UNION {[1..k -> DOMAIN heap] : k \in 0..MaxArr}

\* all over Results of the heap; the Ok it returns may take one more place
CallAll ==
    /\ last.op = "none"
    /\ \E results \in Arrays :
        PerformWithin([NoCall EXCEPT !.op = "all", !.arr = results],
                      ResultUtils_all(heap, results), MaxHeap + 1)

Subjects == {ResultRef(i) : i \in DOMAIN heap} \cup GuardSubjects

CallIsResult ==
    /\ last.op = "none"
    /\ \E v \in Subjects :
        Perform([NoCall EXCEPT !.op = "isResult", !.d = v],
                Effect(heap, Return(Bool(isResult(heap, v))), <<>>))

CallIsOk ==
    /\ last.op = "none"
    /\ \E v \in Subjects :
        Perform([NoCall EXCEPT !.op = "isOk", !.d = v],
                Effect(heap, Return(Bool(isOk(heap, v))), <<>>))

CallIsErr ==
    /\ last.op = "none"
    /\ \E v \in Subjects :
        Perform([NoCall EXCEPT !.op = "isErr", !.d = v],
                Effect(heap, Return(Bool(isErr(heap, v))), <<>>))

\* new PluginError(message, pluginName, context); the error is kept in the
\* heap
CallNewPluginError ==
    /\ last.op = "none"
    /\ \E message \in Messages, pluginName \in PluginNames, context \in Contexts :
        Perform([NoCall EXCEPT !.op = "PluginError", !.f = pluginName, !.g = message,
                               !.ctx = context],
                Effect(Append(heap, PluginError(message, pluginName, context)),
                       Return(ResultRef(Len(heap) + 1)), <<>>))

\* the steps a chain is made of: a method and the function passed to it
Steps ==
    {[m |-> "map", f |-> fn] : fn \in MapFns} \cup
    {[m |-> "flatMap", f |-> fn] : fn \in FlatFns} \cup
    {[m |-> "mapErr", f |-> fn] : fn \in MapFns}

\* the payloads of the Results chains start from
ChainOkPayloads == {Num(0), Num(1)}
ChainErrPayloads == {Str(<<"error">>)}

\* a chain of up to MaxChain map / flatMap / mapErr calls on a Result of the
\* heap;
\* every step may create a Result
CallChain ==
    /\ last.op = "none"
    /\ Len(heap) <= MaxHeap
    /\ \E i \in DOMAIN heap, k \in 1..MaxChain :
        \E steps \in [1..k -> Steps] :
            PerformWithin([NoCall EXCEPT !.op = "chain", !.this = i, !.steps = steps],
                          Chain(heap, i, steps, 1, <<>>), MaxHeap + MaxChain)

\* user code reads the exported constant OXOG_VERSION
ReadVersion ==
    Perform([NoCall EXCEPT !.op = "OXOG_VERSION"],
            Effect(heap, Return(Str(<<OXOG_VERSION>>)), <<>>))

\* user code asks the three guards about one value:
\* [isResult(v), isOk(v), isErr(v)]
CallGuards ==
    /\ last.op = "none"
    /\ \E v \in Subjects :
        Perform([NoCall EXCEPT !.op = "guards", !.d = v],
                Effect(heap, Return(ArrayV(<<Bool(isResult(heap, v)), Bool(isOk(heap, v)),
                                            Bool(isErr(heap, v))>>)), <<>>))

(***************************************************************************)
(* User code of the event bus.                                             *)
(***************************************************************************)
CallOn ==
    /\ bus.made < MaxSubs
    /\ \E fn \in HandlerFns : bus' = TypedEventBus_on(bus, "on", fn)
    /\ UNCHANGED <<heap, last, promise, fp>>

\* once(event, handler): const unsubscribe = this.on(event, wrapper)
CallOnce ==
    /\ bus.made < MaxSubs
    /\ \E fn \in HandlerFns : bus' = TypedEventBus_on(bus, "once", fn)
    /\ UNCHANGED <<heap, last, promise, fp>>

\* off(event, handler), with a handler subscribed by on
CallOff ==
    /\ \E i \in DOMAIN bus.subs :
          /\ bus.subs[i].kind = "on"
          /\ bus' = Delete(bus, bus.subs[i].id)
    /\ UNCHANGED <<heap, last, promise, fp>>

\* the Unsubscribe function that on or once returned
CallUnsubscribe ==
    /\ \E i \in DOMAIN bus.subs : bus' = Delete(bus, bus.subs[i].id)
    /\ UNCHANGED <<heap, last, promise, fp>>

CallEmit ==
    /\ bus.emits < MaxEmits
    /\ bus' = [TypedEventBus_emit(bus) EXCEPT !.emits = @ + 1]
    /\ UNCHANGED <<heap, last, promise, fp>>

(***************************************************************************)
(* fromPromise: the caller awaits the returned promise.  The wrapped       *)
(* promise is settled, or pending; a pending one may settle, or never.     *)
(***************************************************************************)
CallFromPromise(E) ==
    /\ last.op = "none"
    /\ Len(heap) < MaxHeap
    /\ promise' \in Settlements(OkPayloads, E) \cup {[state |-> "pending", val |-> Undefined]}
    /\ fp' = [state |-> "awaiting", out |-> Undefined]
    /\ last' = [NoCall EXCEPT !.op = "fromPromise", !.len = Len(heap)]
    /\ UNCHANGED <<heap, bus>>

PromiseSettles(E) ==
    /\ promise.state = "pending"
    /\ promise' \in Settlements(OkPayloads, E)
    /\ UNCHANGED <<heap, last, fp, bus>>

FromPromiseResumes ==
    /\ fp.state = "awaiting"
    /\ promise.state \in {"fulfilled", "rejected"}
    /\ LET eff == ResultUtils_fromPromise(heap, promise) IN
        /\ heap' = eff.heap
        /\ fp' = [state |-> IF eff.out.kind = "throw" THEN "rejected" ELSE "resolved",
                  out |-> eff.out.val]
    /\ UNCHANGED <<last, promise, bus>>

Next ==
    \/ CallOk
    \/ CallErr(ErrPayloads)
    \/ CallMap
    \/ CallFlatMap
    \/ CallMapErr
    \/ CallMatch
    \/ CallUnwrap
    \/ CallUnwrapOr
    \/ CallUnwrapOrElse
    \/ CallTryCatch(ErrPayloads)
    \/ CallAll
    \/ CallFromPromise(ErrPayloads)
    \/ PromiseSettles(ErrPayloads)
    \/ FromPromiseResumes
    \/ Forget

Spec == Init /\ [][Next]_vars

(***************************************************************************)
(* The same program handling every kind of error payload: the calls that   *)
(* render an error or coerce it to a string.                               *)
(***************************************************************************)
NextRender ==
    \/ CallOk
    \/ CallErr(AnyPayloads)
    \/ CallUnwrap
    \/ CallTryCatch(AnyPayloads)
    \/ CallFromPromise(AnyPayloads)
    \/ PromiseSettles(AnyPayloads)
    \/ FromPromiseResumes
    \/ Forget

SpecRender == Init /\ [][NextRender]_vars

\* The continuation of fromPromise after its await is a job of the event
\* loop: once the wrapped promise has settled, it is run.
SpecRenderFair == SpecRender /\ WF_vars(FromPromiseResumes)

(***************************************************************************)
(* The program chaining map, flatMap and mapErr calls.                     *)
(***************************************************************************)
NextChain ==
    \/ CallOkOf(ChainOkPayloads)
    \/ CallErr(ChainErrPayloads)
    \/ CallChain
    \/ Forget

SpecChain == Init /\ [][NextChain]_vars

(***************************************************************************)
(* The program asking the type guards about the Results it has built and   *)
(* about other values.                                                     *)
(***************************************************************************)
NextGuards ==
    \/ CallOkOf(GuardPayloads)
    \/ CallErr(GuardPayloads)
    \/ CallIsResult
    \/ CallIsOk
    \/ CallIsErr
    \/ CallGuards
    \/ Forget

SpecGuards == Init /\ [][NextGuards]_vars

(***************************************************************************)
(* The program constructing plugin errors and reading the constants.       *)
(***************************************************************************)
NextErrors ==
    \/ CallNewPluginError
    \/ ReadVersion
    \/ Forget

SpecErrors == Init /\ [][NextErrors]_vars

(***************************************************************************)
(* The program using the example event bus.                                *)
(***************************************************************************)
NextBus ==
    \/ CallOn
    \/ CallOnce
    \/ CallOff
    \/ CallUnsubscribe
    \/ CallEmit

SpecBus == Init /\ [][NextBus]_vars

(***************************************************************************)
(* Properties.                                                             *)
(***************************************************************************)
Results == {heap[i] : i \in DOMAIN heap}

HasField(r, name) == name \in DOMAIN r.own

\* C1 as stated: ok = true exactly when the object has a value field and no
\* error field, ok = false exactly when it has an error field and no value
\* field.
C1_TagExactlyOneField ==
    \A r \in Results :
        /\ (r.own.ok = TRUE) <=> (HasField(r, "value") /\ ~HasField(r, "error"))
        /\ (r.own.ok = FALSE) <=> (HasField(r, "error") /\ ~HasField(r, "value"))

\* C1, amended: every Result produced by Ok, Err, a combinator or a utility
\* carries all three properties ok, value and error; ok is a boolean that
\* agrees with the class; with ok = true the error property holds undefined,
\* with ok = false the value property holds undefined; the constructors put
\* the payload in the property the tag selects.
C1_TagPayloadConsistent ==
    /\ \A r \in Results :
        /\ DOMAIN r.own = {"ok", "value", "error"}
        /\ r.own.ok \in BOOLEAN
        /\ r.own.ok => (r.proto = "OkImpl" /\ r.own.error = Undefined)
        /\ ~r.own.ok => (r.proto = "ErrImpl" /\ r.own.value = Undefined)
    /\ last.op = "Ok" => heap[Len(heap)].own.value = last.d
    /\ last.op = "Err" => heap[Len(heap)].own.error = last.d

\* an Ok and an Err in the heap, the last one produced by a utility
C1_Witness ==
    /\ last.op \in {"tryCatch", "all"}
    /\ Len(heap) > last.len
    /\ \E r \in Results : r.own.ok
    /\ \E r \in Results : ~r.own.ok

\* the heap as it was when the last call began
HeapBefore == SubSeq(heap, 1, last.len)

\* C2: no operation mutates its receiver or its inputs: every Result of the
\* heap keeps its ok, value and error through every step (map, flatMap,
\* mapErr, match, unwrap, unwrapOr, unwrapOrElse, and all over it).
C2_ResultsImmutable ==
    [][\A i \in DOMAIN heap : i \in DOMAIN heap' /\ heap'[i] = heap[i]]_vars

\* a map on an Ok has produced a new Result beside its receiver
C2_Witness ==
    /\ last.op = "map"
    /\ last.recv.proto = "OkImpl"
    /\ Len(heap) = 2
    /\ last.out = Return(ResultRef(2))
    /\ heap[1] # heap[2]

\* C3: Ok(x).map(f) invokes f exactly once, with x, and when f returns y the
\* call returns a new Ok (ok = true) whose value is y.
C3_OkMap ==
    (last.op = "map" /\ last.recv.proto = "OkImpl") =>
        LET x == last.recv.own.value
            fx == Call(last.f, x, HeapBefore).out
        IN
        /\ last.calls = <<Invoked("fn", last.f, x)>>
        /\ fx.kind = "return" =>
            /\ Len(heap) = last.len + 1
            /\ last.out = Return(ResultRef(Len(heap)))
            /\ heap[Len(heap)].proto = "OkImpl"
            /\ heap[Len(heap)].own.ok = TRUE
            /\ heap[Len(heap)].own.value = fx.val

C3_Witness ==
    /\ last.op = "map"
    /\ last.recv = OkImpl(Num(1))
    /\ last.f = "succ"
    /\ last.out.kind = "return"
    /\ heap[last.out.val.n].own.value = Num(2)

\* C4: Err(e).map(f) and Err(e).flatMap(f) never invoke f and return the
\* receiver itself, the same Err instance with its error e unchanged.
C4_ErrMapFlatMapNoOp ==
    (last.op \in {"map", "flatMap"} /\ last.recv.proto = "ErrImpl") =>
        /\ last.calls = <<>>
        /\ last.out = Return(ResultRef(last.this))
        /\ heap = HeapBefore
        /\ heap[last.this] = last.recv

C4_Witness ==
    /\ last.op = "flatMap"
    /\ last.f = "okSucc"
    /\ last.recv = ErrImpl(Str(<<"error">>))
    /\ last.out.kind = "return"

\* C5: Ok(x).flatMap(f) invokes f exactly once, with x, and returns exactly
\* the Result f returned: the same reference, Ok or Err, and no copy of it.
C5_OkFlatMap ==
    (last.op = "flatMap" /\ last.recv.proto = "OkImpl") =>
        LET x == last.recv.own.value
            fx == Call(last.f, x, HeapBefore)
        IN
        /\ last.calls = <<Invoked("fn", last.f, x)>>
        /\ last.out = fx.out
        /\ heap = fx.heap

\* f returned the Result it had captured, and flatMap returned that one
C5_Witness ==
    /\ last.op = "flatMap"
    /\ last.recv.proto = "OkImpl"
    /\ last.this = 2
    /\ last.f = "first"
    /\ last.out = Return(ResultRef(1))
    /\ ~heap[1].own.ok

\* C6: mapErr transforms only the error side: Err(e).mapErr(f) invokes f
\* once, with e, and when f returns y the call returns a new Err holding y;
\* Ok(x).mapErr(f) never invokes f and returns the receiver itself, its
\* value unchanged.
C6_MapErr ==
    last.op = "mapErr" =>
        IF last.recv.proto = "ErrImpl" THEN
            LET e == last.recv.own.error
                fe == Call(last.f, e, HeapBefore).out
            IN
            /\ last.calls = <<Invoked("fn", last.f, e)>>
            /\ fe.kind = "return" =>
                /\ Len(heap) = last.len + 1
                /\ last.out = Return(ResultRef(Len(heap)))
                /\ heap[Len(heap)].proto = "ErrImpl"
                /\ heap[Len(heap)].own.ok = FALSE
                /\ heap[Len(heap)].own.error = fe.val
        ELSE
            /\ last.calls = <<>>
            /\ last.out = Return(ResultRef(last.this))
            /\ heap = HeapBefore
            /\ heap[last.this] = last.recv

C6_Witness ==
    /\ last.op = "mapErr"
    /\ last.recv = ErrImpl(ObjRef("code"))
    /\ last.f = "succ"
    /\ last.out.kind = "return"
    /\ heap[last.out.val.n] = ErrImpl(Num(0))

\* C7: match is an exhaustive dispatch: r.match(handlers) invokes exactly
\* one handler exactly once (handlers.ok with the value when r.ok is true,
\* handlers.err with the error when r.ok is false), never the other one, and
\* returns what that handler returned.
C7_MatchDispatch ==
    last.op = "match" =>
        LET chosen == IF last.recv.own.ok
                      THEN Invoked("ok", last.f, last.recv.own.value)
                      ELSE Invoked("err", last.g, last.recv.own.error)
        IN
        /\ last.calls = <<chosen>>
        /\ last.out = Call(chosen.fn, chosen.arg, HeapBefore).out

C7_Witness ==
    /\ last.op = "match"
    /\ last.recv = ErrImpl(Str(<<"error">>))
    /\ last.f = "toUndefined"
    /\ last.g = "succ"
    /\ last.out = Return(Num(0))

\* C9: fallback unwrapping is lazy: on Ok(x), unwrapOr(d) and
\* unwrapOrElse(fn) return x and invoke nothing; on Err(e), unwrapOr(d)
\* returns d and invokes nothing, unwrapOrElse(fn) invokes fn exactly once,
\* with e, and returns its result.
C9_LazyFallback ==
    /\ last.op = "unwrapOr" =>
        /\ last.calls = <<>>
        /\ last.out = Return(IF last.recv.own.ok THEN last.recv.own.value ELSE last.d)
    /\ last.op = "unwrapOrElse" =>
        IF last.recv.own.ok THEN
            /\ last.calls = <<>>
            /\ last.out = Return(last.recv.own.value)
        ELSE
            /\ last.calls = <<Invoked("fn", last.f, last.recv.own.error)>>
            /\ last.out = Call(last.f, last.recv.own.error, HeapBefore).out

C9_Witness ==
    /\ last.op = "unwrapOrElse"
    /\ last.recv = OkImpl(Num(2))
    /\ last.f = "boom"
    /\ last.out = Return(Num(2))

(***************************************************************************)
(* Properties of unwrap and of the rendering of errors, over every kind of *)
(* error payload (SpecRender).                                             *)
(***************************************************************************)
UnwrapOfErr == last.op = "unwrap" /\ last.recv.proto = "ErrImpl"

\* C8: unwrap on Ok(x) returns x and never throws; unwrap on Err(e) always
\* throws an Error whose message is '[OxogTypes] Cannot unwrap Err: '
\* followed by the safe rendering of e ('error' renders as "error" in JSON
\* quotes, { code: 'TEST' } as {"code":"TEST"}), and never returns a value.
C8_Unwrap ==
    last.op = "unwrap" =>
        IF last.recv.proto = "OkImpl" THEN last.out = Return(last.recv.own.value)
        ELSE
            LET e == last.recv.own.error
                rendering == safeStringify(e)
            IN
            /\ last.out.kind = "throw"
            /\ rendering.kind = "return"
            /\ last.out.val = NewError(UnwrapPrefix \o StringOf(rendering.val).val.s)
            /\ e = Str(<<"error">>) =>
                   last.out.val.s = UnwrapPrefix \o <<"\"", "error", "\"">>
            /\ e = ObjRef("code") =>
                   last.out.val.s = UnwrapPrefix \o
                       <<"{", "\"", "code", "\"", ":", "\"", "TEST", "\"", "}">>

\* C10: the stringifier never throws, whatever the payload; so Err(e).unwrap()
\* always throws the '[OxogTypes] Cannot unwrap Err' error, never another
\* exception raised while the message is built.
C10_StringifyNeverThrows ==
    UnwrapOfErr =>
        /\ last.out.kind = "throw"
        /\ last.out.val.t = "error"
        /\ Len(last.out.val.s) >= 1
        /\ SubSeq(last.out.val.s, 1, 1) = UnwrapPrefix

\* the objects a payload object refers to, directly and through others
Children(id) ==
    {p.s[1] : p \in {Obj(id).props[i].v : i \in DOMAIN Obj(id).props} \cap
                     {ObjRef(x) : x \in ObjIds}}

RECURSIVE Descendants(_, _)
Descendants(ids, n) ==
    IF n = 0 THEN ids
    ELSE Descendants(ids \cup UNION {Children(x) : x \in ids}, n - 1)

\* the graph of the payload v holds an object that refers back to itself
HasCycle(v) ==
    /\ v.t = "object"
    /\ \E x \in Descendants({v.s[1]}, Cardinality(ObjIds)) :
           x \in Descendants(Children(x), Cardinality(ObjIds))

LBrace == <<"{">>
RBrace == <<"}">>
Key(k) == <<"\"", k, "\"", ":">>
CircularMark == <<"\"", "[Circular]", "\"">>

\* C11: rendering a finite payload whose object graph holds a cycle
\* terminates, and the rendering holds the literal [Circular] at the place
\* of each reference to an object already visited in the same call:
\* circular = { name: 'test', self: circular } renders as
\* {"name":"test","self":"[Circular]"}, ring = { next: { back: ring } } as
\* {"next":{"back":"[Circular]"}}.
C11_CircularRendering ==
    (UnwrapOfErr /\ HasCycle(last.recv.own.error)) =>
        LET e == last.recv.own.error
            text == SubSeq(last.out.val.s, 2, Len(last.out.val.s))
        IN
        /\ last.out.kind = "throw"
        /\ last.out.val.t = "error"
        /\ SubSeq(last.out.val.s, 1, 1) = UnwrapPrefix
        /\ Contains(text, "[Circular]")
        /\ e = ObjRef("circular") =>
               text = LBrace \o Key("name") \o <<"\"", "test", "\"", ",">> \o
                      Key("self") \o CircularMark \o RBrace
        /\ e = ObjRef("ring") =>
               text = LBrace \o Key("next") \o LBrace \o Key("back") \o
                      CircularMark \o RBrace \o RBrace
        /\ e = ObjRef("ringBack") =>
               text = LBrace \o Key("back") \o LBrace \o Key("next") \o
                      CircularMark \o RBrace \o RBrace

\* the two-object cycle has been rendered by an unwrap
C11_Witness ==
    /\ UnwrapOfErr
    /\ last.recv.own.error = ObjRef("ring")
    /\ last.out.kind = "throw"
    /\ Contains(last.out.val.s, "[Circular]")

(***************************************************************************)
(* Properties of the utilities tryCatch, fromPromise and all.              *)
(***************************************************************************)
\* the Result the last call created and returned
Created == heap[Len(heap)]
ReturnedNew == Len(heap) = last.len + 1 /\ last.out = Return(ResultRef(Len(heap)))

\* C12: tryCatch(fn): when fn returns v the result is Ok(v); when fn throws
\* a native Error e the result is Err holding that same object e; when fn
\* throws any value t that is not an Error the result is Err holding a new
\* Error whose message is String(t).
C12_TryCatch ==
    last.op = "tryCatch" =>
        /\ last.calls = <<Invoked("fn", "thunk", Undefined)>>
        /\ IF last.thunk.kind = "return" THEN
               ReturnedNew /\ Created = OkImpl(last.thunk.val)
           ELSE IF InstanceOfError(last.thunk.val) THEN
               ReturnedNew /\ Created = ErrImpl(last.thunk.val)
           ELSE
               /\ ReturnedNew
               /\ StringOf(last.thunk.val).kind = "return"
               /\ Created = ErrImpl(NewError(StringOf(last.thunk.val).val.s))

\* C13: tryCatch never raises to its caller, whatever fn does and whatever
\* it throws, values that cannot be coerced to a string included.
C13_TryCatchNeverThrows ==
    last.op = "tryCatch" => last.out.kind = "return"

Settled(p) == p.state \in {"fulfilled", "rejected"}
FpSettled == fp.state \in {"resolved", "rejected"}

\* C14: the promise fromPromise(p) returns never rejects: when p fulfils
\* with v it resolves to Ok(v), when p rejects with a native Error e it
\* resolves to Err(e) (the same object), when p rejects with any other value
\* t it resolves to Err(new Error(String(t))).
C14_FromPromise ==
    FpSettled =>
        /\ fp.state = "resolved"
        /\ Len(heap) = last.len + 1
        /\ fp.out = ResultRef(Len(heap))
        /\ IF promise.state = "fulfilled" THEN Created = OkImpl(promise.val)
           ELSE IF InstanceOfError(promise.val) THEN Created = ErrImpl(promise.val)
           ELSE /\ StringOf(promise.val).kind = "return"
                /\ Created = ErrImpl(NewError(StringOf(promise.val).val.s))

\* C15: fromPromise has no timeout and no cancellation: the returned promise
\* settles only after the wrapped promise has settled (while the wrapped one
\* is pending, so is the returned one, for ever if need be), and once the
\* wrapped promise has settled the returned promise eventually resolves:
\* it leaves the pending state, and leaves it only by resolving.
C15_SettlesWithWrapped ==
    /\ [](FpSettled => Settled(promise))
    /\ [](promise.state = "pending" => fp.state = "awaiting")
    /\ [][(fp.state = "awaiting" /\ fp'.state # "awaiting") =>
              (Settled(promise) /\ fp'.state = "resolved")]_vars
    /\ ((fp.state = "awaiting" /\ Settled(promise)) ~> fp.state = "resolved")

\* the places of the array handed to all that hold an Err
Failed == {i \in DOMAIN last.arr : ~HeapBefore[last.arr[i]].own.ok}
Read(i) == Invoked("read", "", ResultRef(last.arr[i]))

\* C16: all is first-failure-wins and short-circuits: when the array holds
\* an Err, all returns exactly the Err at the lowest such index (the same
\* object, nothing new is created), and the elements after that index are
\* not inspected.
C16_AllFirstFailure ==
    (last.op = "all" /\ Failed # {}) =>
        LET first == CHOOSE i \in Failed : \A j \in Failed : i <= j IN
        /\ last.out = Return(ResultRef(last.arr[first]))
        /\ heap = HeapBefore
        /\ last.calls = [j \in 1..first |-> Read(j)]

\* all over two different Errs has returned the first and read only it
C16_Witness ==
    /\ last.op = "all"
    /\ Len(last.arr) = 2
    /\ Failed = {1, 2}
    /\ heap[last.arr[1]] # heap[last.arr[2]]
    /\ last.out = Return(ResultRef(last.arr[1]))
    /\ Len(last.calls) = 1

\* C17: all over an array whose elements are all Ok returns an Ok holding a
\* new array of the same length whose i-th entry is the value of the i-th
\* element; all over the empty array returns Ok of the empty array.
C17_AllCollects ==
    (last.op = "all" /\ Failed = {}) =>
        /\ ReturnedNew
        /\ Created = OkImpl(ArrayV([i \in 1..Len(last.arr) |->
                                        HeapBefore[last.arr[i]].own.value]))
        /\ Len(Created.own.value.e) = Len(last.arr)
        /\ last.arr = <<>> => Created = OkImpl(ArrayV(<<>>))
        /\ last.calls = [j \in 1..Len(last.arr) |-> Read(j)]

\* all over two Oks of different values has collected them in order
C17_Witness ==
    /\ last.op = "all"
    /\ Len(last.arr) = 2
    /\ Failed = {}
    /\ HeapBefore[last.arr[1]].own.value # HeapBefore[last.arr[2]].own.value
    /\ Created.own.value.e =
           <<HeapBefore[last.arr[1]].own.value, HeapBefore[last.arr[2]].own.value>>

(***************************************************************************)
(* Properties of the type guards (SpecGuards).                             *)
(***************************************************************************)
\* the last call asked a guard about a Result built by Ok or Err
AskedAboutResult == last.op \in {"isResult", "isOk", "isErr"} /\ last.d.t = "result"

\* C18: the guards agree with the constructors, for every payload, null and
\* undefined included: isOk(Ok(x)) is true and isErr(Ok(x)) false,
\* isErr(Err(e)) is true and isOk(Err(e)) false, and isResult is true for
\* both.
C18_GuardsAgree ==
    AskedAboutResult =>
        LET r == heap[last.d.n] IN
        /\ r \in {OkImpl(x) : x \in GuardPayloads} \cup {ErrImpl(e) : e \in GuardPayloads}
        /\ last.op = "isResult" => last.out = Return(Bool(TRUE))
        /\ last.op = "isOk" => last.out = Return(Bool(r.proto = "OkImpl"))
        /\ last.op = "isErr" => last.out = Return(Bool(r.proto = "ErrImpl"))

\* isOk has answered false about Err(null)
C18_Witness ==
    /\ last.op = "isOk"
    /\ last.d.t = "result"
    /\ heap[last.d.n] = ErrImpl(Null)
    /\ last.out = Return(Bool(FALSE))

NotObjects == {Null, Undefined, Num(42), Str(<<"string">>), Bool(TRUE), FunctionV}
WithoutOk ==
    {ArrayV(<<>>), NewError(<<"error">>)} \cup
    {ObjRef(id) : id \in {"empty", "valueOnly", "errorOnly", "code", "native", "list"}}
NonBooleanOk == {ObjRef("okString"), ObjRef("okNumber")}
OkAndField ==
    {ObjRef(id) : id \in {"duckOk", "duckErr", "duckUndef", "okWithError", "errWithValue"}}

\* C19: isResult(v) is true exactly when v is a non-null object whose ok is
\* a boolean and that has a value field or an error field, even one holding
\* undefined; it is false for null, undefined, primitives, objects without
\* ok, objects whose ok is not a boolean, and { ok: true } alone.
C19_IsResult ==
    last.op = "isResult" =>
        /\ last.d \in NotObjects \cup WithoutOk \cup NonBooleanOk \cup {ObjRef("okOnly")}
              => last.out = Return(Bool(FALSE))
        /\ last.d \in OkAndField => last.out = Return(Bool(TRUE))
        /\ last.d.t = "result" => last.out = Return(Bool(TRUE))
        /\ last.out = Return(Bool(
               /\ last.d \notin NotObjects
               /\ Get(heap, last.d, "ok") \in {Bool(TRUE), Bool(FALSE)}
               /\ \E name \in {"value", "error"} : In(heap, name, last.d)))

\* isResult has answered true about { ok: true, value: undefined }
C19_Witness ==
    /\ last.op = "isResult"
    /\ last.d = ObjRef("duckUndef")
    /\ last.out = Return(Bool(TRUE))

(***************************************************************************)
(* Properties of the error classes (SpecErrors).                           *)
(***************************************************************************)
\* C20: a PluginError always includes pluginName in its context: for every
\* message, plugin name n and optional context c, the constructed error has
\* context.pluginName = n together with all entries of c, code =
\* PLUGIN_ERROR and pluginName = n, whether or not c was supplied.
C20_PluginErrorContext ==
    last.op = "PluginError" =>
        LET error == Created.own
            n == last.f
            c == last.ctx.props
        IN
        /\ ReturnedNew
        /\ error.code = "PLUGIN_ERROR"
        /\ error.pluginName = n
        /\ error.message = last.g
        /\ error.context.given
        /\ HasKey(error.context.props, "pluginName")
        /\ Lookup(error.context.props, "pluginName") = n
        /\ \A i \in DOMAIN c :
               /\ HasKey(error.context.props, c[i].k)
               /\ Lookup(error.context.props, c[i].k) = c[i].v

\* C21: the exported constant OXOG_VERSION is the current package version
\* '1.0.3'.
C21_Version ==
    last.op = "OXOG_VERSION" => last.out = Return(Str(<<"1.0.3">>))

(***************************************************************************)
(* Properties of chains (SpecChain).                                       *)
(***************************************************************************)
\* the log entries of the last chain that are results of a step
IsResultEntry(j) == last.calls[j].role = "result"
\* the j-th log entry is a step that returned an Err
ReturnedErr(j) == IsResultEntry(j) /\ heap[last.calls[j].arg.n].proto = "ErrImpl"

\* C22: in a chain of map and flatMap calls, once an intermediate result is
\* an Err (the receiver the chain starts from included), none of the
\* functions passed to the later calls is invoked and the final result is
\* that same Err instance.
C22_ChainShortCircuit ==
    (last.op = "chain" /\ \A i \in DOMAIN last.steps : last.steps[i].m \in {"map", "flatMap"}) =>
        /\ last.recv.proto = "ErrImpl" =>
               /\ \A j \in DOMAIN last.calls : IsResultEntry(j)
               /\ last.out = Return(ResultRef(last.this))
        /\ \A j \in DOMAIN last.calls :
               ReturnedErr(j) =>
                   /\ \A l \in DOMAIN last.calls :
                          l > j => (IsResultEntry(l) /\ last.calls[l].arg = last.calls[j].arg)
                   /\ last.out = Return(last.calls[j].arg)

\* Ok(1).flatMap(tooBig).map(succ): the flatMap returned an Err, the map was
\* skipped and the chain returned that Err
C22_Witness ==
    /\ last.op = "chain"
    /\ last.recv = OkImpl(Num(1))
    /\ last.steps = <<[m |-> "flatMap", f |-> "tooBig"], [m |-> "map", f |-> "succ"]>>
    /\ Len(last.calls) = 3
    /\ last.calls[1] = Invoked("fn", "tooBig", Num(1))
    /\ ReturnedErr(2)
    /\ last.out = Return(last.calls[2].arg)

\* the step of the last chain that made the j-th log entry
StepOf(j) == Cardinality({l \in 1..(j - 1) : IsResultEntry(l)}) + 1
\* the j-th log entry is a function passed to map that was invoked and threw
MapFnThrew(j) ==
    /\ last.calls[j].role = "fn"
    /\ last.steps[StepOf(j)].m = "map"
    /\ Call(last.calls[j].fn, last.calls[j].arg, HeapBefore).out.kind = "throw"
\* the Results the steps of the last chain returned
StepResults == {last.calls[l].arg.n : l \in {j \in DOMAIN last.calls : IsResultEntry(j)}}

UnwrapRendered(text) ==
    /\ last.out.kind = "throw"
    /\ last.out.val = NewError(UnwrapPrefix \o text)

\* C23: the stringifier is an ordered dispatch, the first matching category
\* decides: a native Error renders as exactly its message; otherwise a
\* bigint as its decimal digits; otherwise a symbol via its own string
\* conversion (Symbol(test)); otherwise a function as the literal
\* [Function]; only otherwise is JSON serialization attempted, in which
\* nested bigint values are rendered as their decimal strings.
C23_OrderedDispatch ==
    UnwrapOfErr =>
        LET e == last.recv.own.error IN
        IF InstanceOfError(e) THEN
            /\ ErrorMessage(e).kind = "return"
            /\ UnwrapRendered(ErrorMessage(e).val.s)
            /\ e = ObjRef("native") => UnwrapRendered(<<"Something went wrong">>)
        ELSE IF e.t = "bigint" THEN UnwrapRendered(DecText(e.n))
        ELSE IF e.t = "symbol" THEN UnwrapRendered(<<"Symbol(">> \o e.s \o <<")">>)
        ELSE IF e.t = "function" THEN UnwrapRendered(<<"[Function]">>)
        ELSE
            /\ (JSONStringify(e).kind = "return" /\ JSONStringify(e).val.t = "string")
                  => UnwrapRendered(JSONStringify(e).val.s)
            /\ e = ObjRef("nestedBig") =>
                  UnwrapRendered(LBrace \o Key("id") \o <<"1", ",">> \o Key("bigValue") \o
                                 <<"\"", "9", "9", "9", "\"">> \o RBrace)

\* the payload e gets as far as the JSON serialization, which throws
SerializationThrows(e) ==
    /\ ~InstanceOfError(e)
    /\ TypeOf(e) \notin {"bigint", "symbol", "function"}
    /\ JSONStringify(e).kind = "throw"

\* C24: if the structural serialization of the error payload throws (the
\* payload's toJSON hook throws, say), the rendering degrades to the generic
\* string coercion of the payload ([object Object] for a plain object) and
\* unwrap still throws the '[OxogTypes] Cannot unwrap Err' error holding
\* that text.
C24_SerializationFallback ==
    (UnwrapOfErr /\ SerializationThrows(last.recv.own.error)) =>
        LET e == last.recv.own.error IN
        /\ StringOf(e).kind = "return"
        /\ UnwrapRendered(StringOf(e).val.s)
        /\ Deref(e).cls = "Object" => UnwrapRendered(<<"[object Object]">>)

(***************************************************************************)
(* Properties of the example event bus (SpecBus).                          *)
(***************************************************************************)
\* the function of subscription id is in the handler set
Subscribed(id) == \E i \in DOMAIN bus.subs : bus.subs[i].id = id

\* C26: a handler registered with once is subscribed exactly once: over any
\* sequence of emit calls (emits from inside handlers and handlers that
\* throw included) it is invoked at most one time, and after its first
\* invocation it is no longer in the event's handler set.
C26_OnceAtMostOnce ==
    \A id \in bus.once :
        /\ bus.invoked[id] <= 1
        /\ bus.invoked[id] >= 1 => ~Subscribed(id)

(***************************************************************************)
(* More properties of the type guards (SpecGuards).                        *)
(***************************************************************************)
\* what the three guards answered about the value last.d
Answers == last.out.val.e
SaidResult == Answers[1] = Bool(TRUE)
SaidOk == Answers[2] = Bool(TRUE)
SaidErr == Answers[3] = Bool(TRUE)

C28_NarrowingSound ==
    last.op = "guards" =>
        /\ SaidOk => In(heap, "value", last.d)
        /\ SaidErr => In(heap, "error", last.d)
        /\ last.d = ObjRef("okWithError") => ~SaidOk
        /\ last.d = ObjRef("errWithValue") => ~SaidErr

\* C29: the stringifier always returns a string: for every error payload,
\* undefined and payloads that JSON serialization maps to no output
\* included, the rendering that unwrap puts after '[OxogTypes] Cannot unwrap
\* Err: ' is a string that safeStringify returned, not another kind of
\* value coerced into the message.
C29_ReturnsString ==
    UnwrapOfErr =>
        LET rendering == safeStringify(last.recv.own.error) IN
        /\ rendering.kind = "return"
        /\ rendering.val.t = "string"
        /\ UnwrapRendered(rendering.val.s)

CodeText == LBrace \o Key("code") \o <<"\"", "TEST", "\"">> \o RBrace

\* C30: the literal [Circular] is substituted only for true cycles: for an
\* error payload whose object graph is acyclic, one that refers to the same
\* object from two properties included, the rendering holds no [Circular]
\* and every reference is serialized in full: { a: c, b: c } with
\* c = { code: 'TEST' } renders as {"a":{"code":"TEST"},"b":{"code":"TEST"}}.
C30_CircularOnlyForCycles ==
    (UnwrapOfErr /\ last.recv.own.error.t = "object" /\ ~HasCycle(last.recv.own.error)) =>
        /\ last.out.kind = "throw" => ~Contains(last.out.val.s, "[Circular]")
        /\ last.recv.own.error = ObjRef("shared") =>
               UnwrapRendered(LBrace \o Key("a") \o CodeText \o <<",">> \o
                              Key("b") \o CodeText \o RBrace)

=============================================================================
